---------------------------- MODULE Spec2Model ----------------------------
(***************************************************************************)
(* Detection request pipeline of the object-detection microservice:        *)
(*   ui-backend/app.py  (Flask "Ingestion Gateway", upload handler)         *)
(*   ai-backend/app.py  (FastAPI "Detection Service", detect handler)       *)
(*                                                                         *)
(* Strings are sequences of one-character strings, so that the filename     *)
(* functions (rsplit, lower, splitext, secure_filename, strftime) are       *)
(* computed the way the code computes them.  Pixel coordinates are          *)
(* integers counting eighths of a pixel and confidences count 1/32: these   *)
(* are exactly representable as floats, so Python's round() is the         *)
(* round-half-to-even of the exact value.  Rounded values are integers      *)
(* counting hundredths (boxes, centers) or ten-thousandths (confidence).    *)
(***************************************************************************)
EXTENDS Integers, Sequences, FiniteSets, TLC

VARIABLES
    now,        \* wall clock, whole seconds within one minute
    model,      \* ai-backend global `model`: "unset" or "loaded"
    svc,        \* detection service process: "starting", "running", "dead"
    files,      \* the disk: path -> content, for the paths that exist
    up,         \* per request: the upload as the client sent it
    gpc,        \* per request: position of the gateway's upload handler
    gw,         \* per request: locals of the upload handler
    dpc,        \* per request: position of the service's detect handler
    ds,         \* per request: locals of the detect handler
    dsResp,     \* per request: the detect handler's HTTP response
    resp,       \* per request: the gateway's HTTP response
    hist,       \* per request: what the request did (calls, inferences, writes)
    preds,      \* parse_results: the raw prediction rows
    parsed      \* parse_results: whether it has returned, and the detections

vars == <<now, model, svc, files, up, gpc, gw, dpc, ds, dsResp, resp, hist,
          preds, parsed>>

pipeVars == <<now, model, svc, files, up, gpc, gw, dpc, ds, dsResp, resp, hist>>

---------------------------------------------------------------------------
(* Bounds *)

NumReqs == 2        \* upload requests in one behaviour
MaxClock == 1       \* the clock runs over 0..MaxClock
MaxCoord == 5       \* raw box corners range over 0..MaxCoord eighths of a pixel

Reqs == 1..NumReqs

\* Python's None, told apart from every character string
None == <<"None">>

---------------------------------------------------------------------------
(* Python string functions on character sequences *)

RECURSIVE RFind(_, _, _)
\* str.rfind over s[1..i]: the last index of c, 0 when there is none
RFind(s, c, i) ==
    IF i = 0 THEN 0
    ELSE IF s[i] = c THEN i ELSE RFind(s, c, i - 1)

\* the characters str.lower() changes and what it makes of them; strings
\* are over the characters up to U+00FF (ASCII and Latin-1)
UpperChars ==
    <<
      "A", "B", "C", "D", "E", "F", "G", "H", "I", "J", "K", "L",
      "M", "N", "O", "P", "Q", "R", "S", "T", "U", "V", "W", "X",
      "Y", "Z", "À", "Á", "Â", "Ã", "Ä", "Å", "Æ", "Ç", "È", "É",
      "Ê", "Ë", "Ì", "Í", "Î", "Ï", "Ð", "Ñ", "Ò", "Ó", "Ô", "Õ",
      "Ö", "Ø", "Ù", "Ú", "Û", "Ü", "Ý", "Þ" >>

LowerChars ==
    <<
      "a", "b", "c", "d", "e", "f", "g", "h", "i", "j", "k", "l",
      "m", "n", "o", "p", "q", "r", "s", "t", "u", "v", "w", "x",
      "y", "z", "à", "á", "â", "ã", "ä", "å", "æ", "ç", "è", "é",
      "ê", "ë", "ì", "í", "î", "ï", "ð", "ñ", "ò", "ó", "ô", "õ",
      "ö", "ø", "ù", "ú", "û", "ü", "ý", "þ" >>

\* str.lower() of one character
LowerChar(c) ==
    IF \E i \in 1..Len(UpperChars) : UpperChars[i] = c
    THEN LowerChars[CHOOSE i \in 1..Len(UpperChars) : UpperChars[i] = c]
    ELSE c

\* str.lower()
Lower(s) == [i \in 1..Len(s) |-> LowerChar(s[i])]

ALLOWED_EXTENSIONS ==
    { <<"p","n","g">>, <<"j","p","g">>, <<"j","p","e","g">>,
      <<"g","i","f">>, <<"b","m","p">>, <<"w","e","b","p">> }

\* allowed_file: '.' in filename and filename.rsplit('.', 1)[1].lower() in ALLOWED
allowed_file(filename) ==
    LET d == RFind(filename, ".", Len(filename))
    IN  /\ d > 0
        /\ Lower(SubSeq(filename, d + 1, Len(filename))) \in ALLOWED_EXTENSIONS

RECURSIVE OnlyDots(_, _, _)
\* TRUE when p[i..j-1] holds dots only (posixpath.splitext skips leading dots)
OnlyDots(p, i, j) ==
    IF i >= j THEN TRUE
    ELSE IF p[i] # "." THEN FALSE ELSE OnlyDots(p, i + 1, j)

\* os.path.splitext: <<root, ext>>
splitext(p) ==
    LET sep == RFind(p, "/", Len(p))
        dot == RFind(p, ".", Len(p))
    IN  IF dot > sep /\ ~OnlyDots(p, sep + 1, dot)
        THEN <<SubSeq(p, 1, dot - 1), SubSeq(p, dot, Len(p))>>
        ELSE <<p, <<>>>>

SafeChars ==
    { "a","b","c","d","e","f","g","h","i","j","k","l","m","n","o","p","q",
      "r","s","t","u","v","w","x","y","z",
      "A","B","C","D","E","F","G","H","I","J","K","L","M","N","O","P","Q",
      "R","S","T","U","V","W","X","Y","Z",
      "0","1","2","3","4","5","6","7","8","9","_",".","-" }

\* the characters from U+0080 to U+00FF whose NFKD form has ASCII characters,
\* and those ASCII characters (unicodedata.normalize("NFKD", c) encoded with
\* encode("ascii", "ignore")); the others have none and are dropped
NonAsciiChars ==
    <<
      " ", "¨", "ª", "¯", "²", "³", "´", "¸", "¹", "º", "¼", "½",
      "¾", "À", "Á", "Â", "Ã", "Ä", "Å", "Ç", "È", "É", "Ê", "Ë",
      "Ì", "Í", "Î", "Ï", "Ñ", "Ò", "Ó", "Ô", "Õ", "Ö", "Ù", "Ú",
      "Û", "Ü", "Ý", "à", "á", "â", "ã", "ä", "å", "ç", "è", "é",
      "ê", "ë", "ì", "í", "î", "ï", "ñ", "ò", "ó", "ô", "õ", "ö",
      "ù", "ú", "û", "ü", "ý", "ÿ" >>

NonAsciiToAscii ==
    <<
      <<" ">>, <<" ">>, <<"a">>, <<" ">>, <<"2">>, <<"3">>, <<" ">>, <<" ">>,
      <<"1">>, <<"o">>, <<"1","4">>, <<"1","2">>, <<"3","4">>, <<"A">>, <<"A">>, <<"A">>,
      <<"A">>, <<"A">>, <<"A">>, <<"C">>, <<"E">>, <<"E">>, <<"E">>, <<"E">>,
      <<"I">>, <<"I">>, <<"I">>, <<"I">>, <<"N">>, <<"O">>, <<"O">>, <<"O">>,
      <<"O">>, <<"O">>, <<"U">>, <<"U">>, <<"U">>, <<"U">>, <<"Y">>, <<"a">>,
      <<"a">>, <<"a">>, <<"a">>, <<"a">>, <<"a">>, <<"c">>, <<"e">>, <<"e">>,
      <<"e">>, <<"e">>, <<"i">>, <<"i">>, <<"i">>, <<"i">>, <<"n">>, <<"o">>,
      <<"o">>, <<"o">>, <<"o">>, <<"o">>, <<"u">>, <<"u">>, <<"u">>, <<"u">>,
      <<"y">>, <<"y">> >>

\* the characters from U+0080 to U+00FF that have no ASCII form (the first
\* 32 are control characters)
DroppedChars ==
    {
      "", "", "", "", "", "", "", "", "", "", "", "",
      "", "", "", "", "", "", "", "", "", "", "", "",
      "", "", "", "", "", "", "", "", "¡", "¢", "£", "¤",
      "¥", "¦", "§", "©", "«", "¬", "­", "®", "°", "±", "µ", "¶",
      "·", "»", "¿", "Æ", "Ð", "×", "Ø", "Þ", "ß", "æ", "ð", "÷",
      "ø", "þ" }

\* normalize("NFKD", c).encode("ascii", "ignore") of one character
AsciiOf(c) ==
    IF \E i \in 1..Len(NonAsciiChars) : NonAsciiChars[i] = c
    THEN NonAsciiToAscii[CHOOSE i \in 1..Len(NonAsciiChars) : NonAsciiChars[i] = c]
    ELSE IF c \in DroppedChars THEN << >>
    ELSE <<c>>

RECURSIVE ToAscii(_)
\* unicodedata.normalize("NFKD", s).encode("ascii", "ignore").decode("ascii")
ToAscii(s) ==
    IF s = << >> THEN << >> ELSE AsciiOf(Head(s)) \o ToAscii(Tail(s))

\* the ASCII characters str.split() splits at: space, tab, newline, carriage
\* return, form feed, U+000B and U+001C to U+001F
Whitespace == { " ", "\t", "\n", "\r", "\f", "", "", "", "", "" }

RECURSIVE JoinWords(_, _, _)
\* "_".join(s.split()) from index i on; st is "start" before the first word,
\* "word" inside a word and "gap" in the whitespace after a word
JoinWords(s, i, st) ==
    IF i > Len(s) THEN <<>>
    ELSE IF s[i] \in Whitespace
         THEN JoinWords(s, i + 1, IF st = "start" THEN "start" ELSE "gap")
         ELSE (IF st = "gap" THEN <<"_">> ELSE <<>>) \o <<s[i]>>
                  \o JoinWords(s, i + 1, "word")

RECURSIVE StripLeft(_)
StripLeft(s) ==
    IF s # <<>> /\ Head(s) \in {".", "_"} THEN StripLeft(Tail(s)) ELSE s

RECURSIVE StripRight(_)
StripRight(s) ==
    IF s # <<>> /\ s[Len(s)] \in {".", "_"}
    THEN StripRight(SubSeq(s, 1, Len(s) - 1)) ELSE s

\* werkzeug.utils.secure_filename: the name is reduced to ASCII (NFKD, the
\* rest is dropped), path separators become spaces, runs of whitespace
\* become one "_", characters outside [A-Za-z0-9_.-] are dropped, and "."
\* and "_" are stripped from both ends
secure_filename(name) ==
    LET ascii  == ToAscii(name)
        nosep  == [i \in 1..Len(ascii) |-> IF ascii[i] = "/" THEN " " ELSE ascii[i]]
        joined == JoinWords(nosep, 1, "start")
        kept   == SelectSeq(joined, LAMBDA c : c \in SafeChars)
    IN  StripRight(StripLeft(kept))

Digit(n) ==
    CASE n = 0 -> "0" [] n = 1 -> "1" [] n = 2 -> "2" [] n = 3 -> "3"
      [] n = 4 -> "4" [] n = 5 -> "5" [] n = 6 -> "6" [] n = 7 -> "7"
      [] n = 8 -> "8" [] n = 9 -> "9"

\* datetime.now().strftime('%Y%m%d_%H%M%S'): the date, hour and minute are
\* fixed over a behaviour ("D_HM"), the seconds field is two digits
strftime(t) == <<"D", "_", "H", "M", Digit((t \div 10) % 10), Digit(t % 10)>>

---------------------------------------------------------------------------
(* Python round() on exactly representable values *)

\* the integer nearest to n/d (d > 0, n >= 0), ties to the even integer
RoundHalfEven(n, d) ==
    LET q == n \div d
        r == n % d
    IN  IF 2 * r < d THEN q
        ELSE IF 2 * r > d THEN q + 1
        ELSE IF q % 2 = 0 THEN q ELSE q + 1

\* round(float(v), 2) of v = k/8: hundredths
Round2(k) == RoundHalfEven(100 * k, 8)

\* round((float(a) + float(b)) / 2, 2) of a = ka/8, b = kb/8: hundredths
RoundMid2(ka, kb) == RoundHalfEven(100 * (ka + kb), 16)

\* round(float(c), 4) of c = k/32: ten-thousandths
Round4(k) == RoundHalfEven(10000 * k, 32)

---------------------------------------------------------------------------
(* parse_results *)

\* one detection dict built from the row at pandas index idx (0-based)
Detection(idx, row) ==
    [ object_id    |-> idx + 1,
      class        |-> row.name,
      confidence   |-> Round4(row.confidence),
      bounding_box |-> [ x_min |-> Round2(row.xmin),
                         y_min |-> Round2(row.ymin),
                         x_max |-> Round2(row.xmax),
                         y_max |-> Round2(row.ymax) ],
      center       |-> [ x |-> RoundMid2(row.xmin, row.xmax),
                         y |-> RoundMid2(row.ymin, row.ymax) ] ]

\* parse_results: the rows in the model's order
parse_results(rows) == [i \in 1..Len(rows) |-> Detection(i - 1, rows[i])]

---------------------------------------------------------------------------
(* Inputs of the pipeline *)

Str_cat_jpg   == <<"c","a","t",".","j","p","g">>
Str_my_c_JPG  == <<"m","y"," ","c",".","J","P","G">>
Str_notes_txt == <<"n","o","t","e","s",".","t","x","t">>
Str_image_jpeg == <<"i","m","a","g","e","/","j","p","e","g">>
Str_text_plain == <<"t","e","x","t","/","p","l","a","i","n">>
Str_octet == <<"a","p","p","l","i","c","a","t","i","o","n","/",
               "o","c","t","e","t","-","s","t","r","e","a","m">>
Str_image_slash == <<"i","m","a","g","e","/">>

\* filenames a client may send; None stands for a request without the field
UploadNames == { None, <<>>, Str_notes_txt, Str_cat_jpg, Str_my_c_JPG }

\* declared content types of the file part: None when the part has no
\* Content-Type header, the empty string when the header is empty
ContentTypes == { Str_image_jpeg, Str_text_plain, << >>, None }

\* request bodies: two images, bytes that are no image, an image over the limit
Payloads == { "imgA", "imgB", "corrupt", "huge" }

\* PIL can open and verify the bytes
Decodes(bytes) == bytes \in { "imgA", "imgB", "huge" }

\* size of the request body in MiB
ContentLength(bytes) == IF bytes = "huge" THEN 17 ELSE 1

\* app.config['MAX_CONTENT_LENGTH'], in MiB
MAX_CONTENT_LENGTH == 16

\* Image.open(io.BytesIO(contents)): colour mode, width and height
Image_open(bytes) ==
    IF bytes = "imgA" THEN [mode |-> "RGB", width |-> 4, height |-> 3]
    ELSE [mode |-> "L", width |-> 2, height |-> 2]

\* image.convert('RGB'): the colour mode changes, the geometry does not
convert_RGB(image) == [image EXCEPT !.mode = "RGB"]

\* the raw rows the detector returns for an image (results.pandas().xyxy[0])
ModelOutput(bytes) ==
    IF bytes = "imgA"
    THEN << [name |-> "cat", confidence |-> 19,
             xmin |-> 1, ymin |-> 0, xmax |-> 5, ymax |-> 3],
            [name |-> "dog", confidence |-> 31,
             xmin |-> 0, ymin |-> 2, xmax |-> 2, ymax |-> 4] >>
    ELSE << >>

\* the uploads a client may send; the fields that are never read for a
\* request without usable filename are fixed
Uploads ==
    { u \in [name : UploadNames, ctype : ContentTypes, payload : Payloads] :
        (u.name = None \/ u.name = <<>> \/ ~allowed_file(u.name))
            => (u.ctype = Str_image_jpeg /\ u.payload \in {"imgA", "huge"}) }

StartsWith(s, prefix) ==
    /\ Len(s) >= Len(prefix)
    /\ SubSeq(s, 1, Len(prefix)) = prefix

---------------------------------------------------------------------------
(* The disk *)

Exists(fs, path) == path \in DOMAIN fs

WriteFile(fs, path, content) ==
    [p \in DOMAIN fs \cup {path} |-> IF p = path THEN content ELSE fs[p]]

RemoveFile(fs, path) == [p \in DOMAIN fs \ {path} |-> fs[p]]

UploadPath(name) == <<"uploads", name>>
ImagePath(name)  == <<"results/image", name>>
JsonPath(name)   == <<"results/json", name>>

\* a file left behind by a write that raised part-way
Partial == [kind |-> "partial"]

---------------------------------------------------------------------------
(* State of one request *)

gw0 == [filename |-> <<>>, filepath |-> <<>>, exc |-> "none"]

ds0 == [filename |-> <<>>, content_type |-> <<>>, contents |-> "none",
        model_seen |-> "none", image |-> None, detections |-> <<>>,
        timestamp |-> <<>>,
        result_filename_img |-> <<>>, result_filename_json |-> <<>>,
        failed_at |-> "none"]

hist0 == [validated |-> FALSE, calls |-> 0, inferences |-> 0,
          staged |-> {}, artifacts |-> {}]

NoResp == [status |-> 0]

\* parse_results has not been called
NotParsed == [done |-> FALSE, detections |-> << >>]

PipeInit ==
    /\ now = 0
    /\ model = "unset"
    /\ svc = "starting"
    /\ files = << >>
    /\ up = [r \in Reqs |-> None]
    /\ gpc = [r \in Reqs |-> "idle"]
    /\ gw = [r \in Reqs |-> gw0]
    /\ dpc = [r \in Reqs |-> "idle"]
    /\ ds = [r \in Reqs |-> ds0]
    /\ dsResp = [r \in Reqs |-> NoResp]
    /\ resp = [r \in Reqs |-> NoResp]
    /\ hist = [r \in Reqs |-> hist0]

Init ==
    /\ PipeInit
    /\ preds = << >>
    /\ parsed = NotParsed

---------------------------------------------------------------------------
(* Ingestion Gateway: upload() *)

ErrBody(msg) == [success |-> FALSE, error |-> msg]

\* jsonify(...), status: the handler returns and the request is over
GwRespond(r, status, body) ==
    /\ resp' = [resp EXCEPT ![r] = [status |-> status, body |-> body]]
    /\ gpc' = [gpc EXCEPT ![r] = "done"]

\* requests' exception classes: ConnectTimeout derives from both
\* ConnectionError and Timeout, ReadTimeout from Timeout
IsTimeout(exc) == exc \in {"ReadTimeout", "ConnectTimeout"}
IsConnectionError(exc) == exc \in {"ConnectionError", "ConnectTimeout"}

\* the except clauses with the ConnectionError clause missing
ForwardExceptStatus_NoConnectionClause(exc) ==
    IF IsTimeout(exc) THEN 504 ELSE 500

\* the except clauses around the forward call, in their order
ForwardExceptStatus(exc) ==
    IF IsTimeout(exc) THEN 504
    ELSE IF IsConnectionError(exc) THEN 503
    ELSE 500

ForwardExceptBody(exc) ==
    IF IsTimeout(exc) THEN ErrBody("AI backend request timeout")
    ELSE IF IsConnectionError(exc) THEN ErrBody("Cannot connect to AI backend service")
    ELSE ErrBody(<<"Error communicating with AI backend", exc>>)

\* the outer except clause
OuterExceptStatus == 500

\* request.files raises RequestEntityTooLarge when the body exceeds the limit
TooLarge(u) == ContentLength(u.payload) > MAX_CONTENT_LENGTH

\* the three input checks, in their order: the error message, or "ok"
UploadCheck(u) ==
    IF u.name = None THEN "No image file provided"
    ELSE IF u.name = <<>> THEN "No file selected"
    ELSE IF ~allowed_file(u.name) THEN "Invalid file type"
    ELSE "ok"

\* f"{timestamp}_{base_name}{ext}" of the sanitised filename
unique_filename(t, filename) ==
    LET se == splitext(filename)
    IN  strftime(t) \o <<"_">> \o se[1] \o se[2]

\* a request arrives (requests take their numbers in the order they arrive):
\* the checks of the upload and the staged file's name
GwReceive(r) ==
    /\ gpc[r] = "idle"
    /\ r > 1 => gpc[r - 1] # "idle"
    /\ \E u \in Uploads :
        /\ up' = [up EXCEPT ![r] = u]
        /\ IF TooLarge(u)
           THEN /\ GwRespond(r, OuterExceptStatus,
                             ErrBody(<<"Internal server error", "RequestEntityTooLarge">>))
                /\ UNCHANGED gw
           ELSE IF UploadCheck(u) # "ok"
           THEN /\ GwRespond(r, 400, ErrBody(UploadCheck(u)))
                /\ UNCHANGED gw
           ELSE /\ gw' = [gw EXCEPT ![r] =
                        [filename |-> secure_filename(u.name),
                         filepath |-> UploadPath(unique_filename(now, secure_filename(u.name))),
                         exc |-> "none"]]
                /\ gpc' = [gpc EXCEPT ![r] = "save"]
                /\ UNCHANGED resp
    /\ UNCHANGED <<now, model, svc, files, dpc, ds, dsResp, hist, preds, parsed>>

\* file.save(filepath)
GwSave(r) ==
    /\ gpc[r] = "save"
    /\ files' = WriteFile(files, gw[r].filepath,
                          [kind |-> "upload", bytes |-> up[r].payload])
    /\ hist' = [hist EXCEPT ![r].staged = @ \cup {gw[r].filepath}]
    /\ gpc' = [gpc EXCEPT ![r] = "validate"]
    /\ UNCHANGED <<now, model, svc, up, gw, dpc, ds, dsResp, resp, preds, parsed>>

\* validate_image: is_valid (any exception of Image.open or verify is FALSE)
validate_image(fs, path) ==
    /\ Exists(fs, path)
    /\ fs[path].kind = "upload"
    /\ Decodes(fs[path].bytes)

\* is_valid, ... = validate_image(filepath)
GwValidate(r) ==
    /\ gpc[r] = "validate"
    /\ gpc' = [gpc EXCEPT ![r] =
                 IF validate_image(files, gw[r].filepath) THEN "forward" ELSE "remove"]
    /\ hist' = [hist EXCEPT ![r].validated = validate_image(files, gw[r].filepath)]
    /\ UNCHANGED <<now, model, svc, files, up, gw, dpc, ds, dsResp, resp,
                   preds, parsed>>

\* os.remove(filepath) and the 400; FileNotFoundError goes to the outer except
GwRemove(r) ==
    /\ gpc[r] = "remove"
    /\ IF Exists(files, gw[r].filepath)
       THEN /\ files' = RemoveFile(files, gw[r].filepath)
            /\ GwRespond(r, 400, ErrBody("Invalid image file"))
            /\ UNCHANGED gw
       ELSE /\ GwRespond(r, OuterExceptStatus,
                         ErrBody(<<"Internal server error", "FileNotFoundError">>))
            /\ gw' = [gw EXCEPT ![r].exc = "FileNotFoundError"]
            /\ UNCHANGED files
    /\ UNCHANGED <<now, model, svc, up, dpc, ds, dsResp, hist, preds, parsed>>

\* the content type the gateway declares for the forwarded part
ForwardContentType(u) ==
    IF u.ctype = None \/ u.ctype = << >> THEN Str_octet ELSE u.ctype

\* the exceptions requests.post can raise before the request is delivered
ConnectExceptions == {"ConnectionError", "ConnectTimeout"}

\* the exceptions requests.post can raise while it waits for the reply
WaitExceptions == {"ReadTimeout", "ConnectionError", "ChunkedEncodingError"}

\* the handler leaves the inner try through an except clause
GwForwardRaise(r, exc) ==
    /\ GwRespond(r, ForwardExceptStatus(exc), ForwardExceptBody(exc))
    /\ gw' = [gw EXCEPT ![r].exc = exc]

\* open(filepath, 'rb') and requests.post(...) up to the delivery of the
\* request: the staged file's bytes as they are now go to the service
GwForward(r) ==
    /\ gpc[r] = "forward"
    /\ IF ~Exists(files, gw[r].filepath)
       THEN /\ GwForwardRaise(r, "FileNotFoundError")
            /\ UNCHANGED <<dpc, ds, hist>>
       ELSE \/ /\ \E exc \in ConnectExceptions : GwForwardRaise(r, exc)
               /\ hist' = [hist EXCEPT ![r].calls = @ + 1]
               /\ UNCHANGED <<dpc, ds>>
            \/ /\ svc # "dead"
               /\ ds' = [ds EXCEPT ![r] =
                            [ds0 EXCEPT !.filename = gw[r].filename,
                                        !.content_type = ForwardContentType(up[r]),
                                        !.contents = files[gw[r].filepath].bytes]]
               /\ dpc' = [dpc EXCEPT ![r] = "check"]
               /\ gpc' = [gpc EXCEPT ![r] = "waiting"]
               /\ hist' = [hist EXCEPT ![r].calls = @ + 1]
               /\ UNCHANGED <<gw, resp>>
    /\ UNCHANGED <<now, model, svc, files, up, dsResp, preds, parsed>>

\* requests.post raises while the service has not answered: the 30 s wait
\* runs out, or the connection breaks; the service is not told
GwWaitFails(r) ==
    /\ gpc[r] = "waiting"
    /\ dpc[r] # "returned"
    /\ \E exc \in WaitExceptions : GwForwardRaise(r, exc)
    /\ UNCHANGED <<now, model, svc, files, up, dpc, ds, dsResp, hist, preds, parsed>>

\* the defaults written over the keys of the body, the count taken from a
\* key the body does not have
FillDefaults_Overwrites(result, filename) ==
    [k \in DOMAIN result \cup {"success", "image_name", "detections_count"} |->
        IF k = "success" THEN TRUE
        ELSE IF k = "image_name" THEN filename
        ELSE IF k = "detections_count"
             THEN (IF "objects" \in DOMAIN result THEN Len(result["objects"]) ELSE 0)
        ELSE result[k]]

\* the defaults filled into a 200 body: only the keys the body lacks
FillDefaults(result, filename) ==
    LET r1 == IF "success" \in DOMAIN result THEN result
              ELSE result @@ ("success" :> TRUE)
        r2 == IF "image_name" \in DOMAIN r1 THEN r1
              ELSE r1 @@ ("image_name" :> filename)
        r3 == IF "detections_count" \in DOMAIN r2 THEN r2
              ELSE r2 @@ ("detections_count" :>
                            IF "detections" \in DOMAIN r2
                            THEN Len(r2["detections"]) ELSE 0)
    IN  r3

\* the reply has arrived: a 200 is passed through, any other status is
\* returned with the gateway's error body
GwReply(r) ==
    /\ gpc[r] = "waiting"
    /\ dpc[r] = "returned"
    /\ IF dsResp[r].status = 200
       THEN GwRespond(r, 200, FillDefaults(dsResp[r].body, gw[r].filename))
       ELSE GwRespond(r, dsResp[r].status,
                      ErrBody(<<"AI backend error", dsResp[r].body>>))
    /\ UNCHANGED <<now, model, svc, files, up, gw, dpc, ds, dsResp, hist,
                   preds, parsed>>

---------------------------------------------------------------------------
(* Detection Service: load_model() and detect_objects() *)

\* load_model succeeds: the global is set and the service starts serving
LoadModel ==
    /\ svc = "starting"
    /\ model' = "loaded"
    /\ svc' = "running"
    /\ UNCHANGED <<now, files, up, gpc, gw, dpc, ds, dsResp, resp, hist, preds, parsed>>

\* torch.hub.load raises: the exception is re-raised out of the startup
\* handler and the process ends
LoadModelFails ==
    /\ svc = "starting"
    /\ svc' = "dead"
    /\ UNCHANGED <<now, model, files, up, gpc, gw, dpc, ds, dsResp, resp, hist,
                   preds, parsed>>

\* the handler returns or raises HTTPException: the request is over
DsRespond(r, status, body) ==
    /\ dsResp' = [dsResp EXCEPT ![r] = [status |-> status, body |-> body]]
    /\ dpc' = [dpc EXCEPT ![r] = "returned"]

\* the handler without the model check
ModelNotReady_Unchecked(m) == FALSE

\* `if model is None`
ModelNotReady(m) == m = "unset"

\* `if not file.content_type.startswith('image/')`
NotAnImage(content_type) == ~StartsWith(content_type, Str_image_slash)

\* the status a request leaves the try block with when it raises inside it:
\* `except Exception` catches the HTTPException(400) of the content-type
\* check like every other exception
TryExceptStatus(raised) == 500

\* the except clause of detect_objects
DsExcept(r, at, cause) ==
    /\ DsRespond(r, TryExceptStatus(cause), [detail |-> <<"Detection failed", cause>>])
    /\ ds' = [ds EXCEPT ![r].failed_at = at, ![r].model_seen = model]

\* the model check and the content-type check
DsCheck(r) ==
    /\ svc # "dead"
    /\ dpc[r] = "check"
    /\ IF ModelNotReady(model)
       THEN /\ DsRespond(r, 503, [detail |-> "Model not loaded"])
            /\ ds' = [ds EXCEPT ![r].model_seen = model]
       ELSE IF NotAnImage(ds[r].content_type)
       THEN DsExcept(r, "content_type", 400)
       ELSE /\ dpc' = [dpc EXCEPT ![r] = "infer"]
            /\ ds' = [ds EXCEPT ![r].model_seen = model]
            /\ UNCHANGED dsResp
    /\ UNCHANGED <<now, model, svc, files, up, gpc, gw, resp, hist, preds, parsed>>

\* Image.open, convert, model(image), parse_results
DsInfer(r) ==
    /\ svc # "dead"
    /\ dpc[r] = "infer"
    /\ IF ~Decodes(ds[r].contents)
       THEN /\ DsExcept(r, "decode", "UnidentifiedImageError")
            /\ UNCHANGED hist
       ELSE LET opened == Image_open(ds[r].contents)
                image == IF opened.mode # "RGB" THEN convert_RGB(opened) ELSE opened
            IN  \/ /\ DsExcept(r, "inference", "RuntimeError")
                   /\ hist' = [hist EXCEPT ![r].inferences = @ + 1]
                \/ /\ ds' = [ds EXCEPT ![r].image = image,
                                       ![r].detections =
                                           parse_results(ModelOutput(ds[r].contents))]
                   /\ hist' = [hist EXCEPT ![r].inferences = @ + 1]
                   /\ dpc' = [dpc EXCEPT ![r] = "save_img"]
                   /\ UNCHANGED dsResp
    /\ UNCHANGED <<now, model, svc, files, up, gpc, gw, resp, preds, parsed>>

\* f"result_{timestamp}_{base_name}" plus the extension
result_filename(ts, filename, ext) ==
    <<"r","e","s","u","l","t","_">> \o ts \o <<"_">> \o splitext(filename)[1] \o ext

Ext_jpg  == <<".","j","p","g">>
Ext_json == <<".","j","s","o","n">>

\* the timestamp, the image artifact's name, results.render() and
\* img_with_boxes.save(result_path_img).  A save that raises removes the
\* file it created and leaves a file that was there before truncated.
DsSaveImage(r) ==
    /\ svc # "dead"
    /\ dpc[r] = "save_img"
    /\ LET ts   == strftime(now)
           name == result_filename(ts, ds[r].filename, Ext_jpg)
           path == ImagePath(name)
           loc  == [ds EXCEPT ![r].timestamp = ts, ![r].result_filename_img = name]
       IN  \/ /\ DsRespond(r, TryExceptStatus("RuntimeError"),
                           [detail |-> <<"Detection failed", "RuntimeError">>])
              /\ ds' = [loc EXCEPT ![r].failed_at = "render"]
              /\ UNCHANGED <<files, hist>>
           \/ /\ DsRespond(r, TryExceptStatus("OSError"),
                           [detail |-> <<"Detection failed", "OSError">>])
              /\ ds' = [loc EXCEPT ![r].failed_at = "image_save"]
              /\ files' = IF Exists(files, path)
                          THEN WriteFile(files, path, Partial) ELSE files
              /\ UNCHANGED hist
           \/ /\ files' = WriteFile(files, path,
                                    [kind |-> "jpeg", of |-> ds[r].contents, by |-> r])
              /\ hist' = [hist EXCEPT ![r].artifacts = @ \cup {path}]
              /\ ds' = loc
              /\ dpc' = [dpc EXCEPT ![r] = "save_json"]
              /\ UNCHANGED dsResp
    /\ UNCHANGED <<now, model, svc, up, gpc, gw, resp, preds, parsed>>

\* datetime.now().isoformat()
isoformat(t) == <<"D", "T", "H", ":", "M", ":", Digit((t \div 10) % 10), Digit(t % 10)>>

\* the dict built before the JSON file is written
response_data(d, t) ==
    [ success          |-> TRUE,
      image_name       |-> d.filename,
      image_size       |-> [width |-> d.image.width, height |-> d.image.height],
      detections_count |-> Len(d.detections),
      detections       |-> d.detections,
      result_image     |-> <<"/static/results/image/", d.result_filename_img>>,
      timestamp        |-> isoformat(t) ]

\* response_data["result_json"] = ...: the dict that is returned
returned_data(data, json_name) ==
    data @@ ("result_json" :> <<"/static/results/json/", json_name>>)

\* response_data, the JSON artifact (open, json.dump) and the response
DsSaveJson(r) ==
    /\ svc # "dead"
    /\ dpc[r] = "save_json"
    /\ LET name == result_filename(ds[r].timestamp, ds[r].filename, Ext_json)
           path == JsonPath(name)
           data == response_data(ds[r], now)
           loc  == [ds EXCEPT ![r].result_filename_json = name]
       IN  \/ /\ DsRespond(r, TryExceptStatus("OSError"),
                           [detail |-> <<"Detection failed", "OSError">>])
              /\ ds' = [loc EXCEPT ![r].failed_at = "json_open"]
              /\ UNCHANGED <<files, hist>>
           \/ /\ DsRespond(r, TryExceptStatus("OSError"),
                           [detail |-> <<"Detection failed", "OSError">>])
              /\ ds' = [loc EXCEPT ![r].failed_at = "json_dump"]
              /\ files' = WriteFile(files, path, Partial)
              /\ hist' = [hist EXCEPT ![r].artifacts = @ \cup {path}]
           \/ /\ files' = WriteFile(files, path, [kind |-> "json", doc |-> data, by |-> r])
              /\ hist' = [hist EXCEPT ![r].artifacts = @ \cup {path}]
              /\ ds' = loc
              /\ DsRespond(r, 200, returned_data(data, name))
    /\ UNCHANGED <<now, model, svc, up, gpc, gw, resp, preds, parsed>>

---------------------------------------------------------------------------
(* The clock and the specification of the pipeline *)

Tick ==
    /\ now < MaxClock
    /\ now' = now + 1
    /\ UNCHANGED <<model, svc, files, up, gpc, gw, dpc, ds, dsResp, resp, hist,
                   preds, parsed>>

Next ==
    \/ Tick
    \/ LoadModel
    \/ LoadModelFails
    \/ \E r \in Reqs : GwReceive(r)
    \/ \E r \in Reqs : GwSave(r)
    \/ \E r \in Reqs : GwValidate(r)
    \/ \E r \in Reqs : GwRemove(r)
    \/ \E r \in Reqs : GwForward(r)
    \/ \E r \in Reqs : GwWaitFails(r)
    \/ \E r \in Reqs : GwReply(r)
    \/ \E r \in Reqs : DsCheck(r)
    \/ \E r \in Reqs : DsInfer(r)
    \/ \E r \in Reqs : DsSaveImage(r)
    \/ \E r \in Reqs : DsSaveJson(r)

Spec == Init /\ [][Next]_vars

---------------------------------------------------------------------------
(* parse_results on its own: the rows are drawn from a bounded set *)

Coords == 0..MaxCoord

\* boxes as the detector reports them: xmin <= xmax, ymin <= ymax
Rows ==
    { row \in [name : {"cat"}, confidence : {19},
               xmin : Coords, ymin : Coords, xmax : Coords, ymax : Coords] :
        row.xmin <= row.xmax /\ row.ymin <= row.ymax }

SecondRow == [name |-> "dog", confidence |-> 31,
              xmin |-> 0, ymin |-> 2, xmax |-> 2, ymax |-> 4]

InitParse ==
    /\ PipeInit
    /\ preds \in {<< >>} \cup { <<row>> : row \in Rows }
                         \cup { <<row, SecondRow>> : row \in Rows }
    /\ parsed = NotParsed

ParseCall ==
    /\ ~parsed.done
    /\ parsed' = [done |-> TRUE, detections |-> parse_results(preds)]
    /\ UNCHANGED <<preds, pipeVars>>

NextParse == ParseCall

SpecParse == InitParse /\ [][NextParse]_vars

---------------------------------------------------------------------------
(* Claims *)

DsReturned(r) == dpc[r] = "returned"
GwDone(r) == gpc[r] = "done"

\* C1: a detect request that returns success leaves both its annotated image
\* and its JSON file on disk, and one that returns a failure leaves neither
\* of the files it wrote
C1_ArtifactsAllOrNothing ==
    \A r \in Reqs :
        DsReturned(r) =>
            IF dsResp[r].status = 200
            THEN /\ Exists(files, ImagePath(ds[r].result_filename_img))
                 /\ Exists(files, JsonPath(ds[r].result_filename_json))
            ELSE \A p \in hist[r].artifacts : ~Exists(files, p)

\* C2: two uploads with the same original filename whose artifacts are named
\* in the same clock second get distinct artifact names
C2_ArtifactNamesDistinct ==
    \A r1, r2 \in Reqs :
        ( /\ r1 # r2
          /\ ds[r1].result_filename_img # << >>
          /\ ds[r2].result_filename_img # << >>
          /\ up[r1].name = up[r2].name
          /\ ds[r1].timestamp = ds[r2].timestamp )
        => /\ ds[r1].result_filename_img # ds[r2].result_filename_img
           /\ result_filename(ds[r1].timestamp, ds[r1].filename, Ext_json)
                # result_filename(ds[r2].timestamp, ds[r2].filename, Ext_json)

\* C3: with the model loaded, a detect request whose content type is not an
\* image is answered 400, runs no inference and writes no artifact
C3_NonImageIs400 ==
    \A r \in Reqs :
        ( /\ DsReturned(r)
          /\ ds[r].model_seen = "loaded"
          /\ NotAnImage(ds[r].content_type) )
        => /\ dsResp[r].status = 400
           /\ hist[r].inferences = 0
           /\ hist[r].artifacts = {}

\* the upload breaks an input constraint of the gateway
ViolatesConstraint(u) == UploadCheck(u) # "ok" \/ TooLarge(u)

\* C4: an upload that breaks an input constraint (no file, empty filename,
\* extension not allowed, body over the limit) is answered 400, is never
\* forwarded and leaves no staged file and no artifact
C4_InvalidUploadIs400 ==
    \A r \in Reqs :
        (GwDone(r) /\ ViolatesConstraint(up[r]))
        => /\ resp[r].status = 400
           /\ hist[r].calls = 0
           /\ hist[r].staged = {}
           /\ hist[r].artifacts = {}

\* the upload passes the input checks and its bytes are no image
CorruptUpload(u) == ~ViolatesConstraint(u) /\ ~Decodes(u.payload)

\* C5: an upload that passes the input checks and whose bytes do not decode
\* is answered 400, its staged file is gone when the response is returned,
\* and it is never forwarded
C5_CorruptUploadIs400 ==
    [][ \A r \in Reqs :
          (~GwDone(r) /\ gpc'[r] = "done" /\ CorruptUpload(up'[r]))
          => /\ resp'[r].status = 400
             /\ ~Exists(files', gw'[r].filepath)
             /\ hist'[r].calls = 0 ]_vars

\* C6: for a validated upload the response follows from the one forward
\* call: a non-2xx reply is returned with its status and an error body, a
\* timeout gives 504, a refused connection 503, any other exception 500;
\* the call is made at most once and no failure carries a success body
C6_ForwardOutcomeDecidesStatus ==
    \A r \in Reqs :
        /\ hist[r].calls <= 1
        /\ (GwDone(r) /\ hist[r].validated) =>
            /\ gw[r].exc \in {"ReadTimeout", "ConnectTimeout"}
                => resp[r].status = 504 /\ resp[r].body.success = FALSE
            /\ gw[r].exc = "ConnectionError"
                => resp[r].status = 503 /\ resp[r].body.success = FALSE
            /\ gw[r].exc \in {"ChunkedEncodingError", "FileNotFoundError"}
                => resp[r].status = 500 /\ resp[r].body.success = FALSE
            /\ (gw[r].exc = "none" /\ dsResp[r].status \notin 200..299)
                => /\ resp[r].status = dsResp[r].status
                   /\ resp[r].body.success = FALSE
                   /\ "error" \in DOMAIN resp[r].body

\* C6 happens: a non-2xx reply of the service has been relayed
C6_Witness ==
    \E r \in Reqs :
        /\ GwDone(r) /\ hist[r].validated /\ hist[r].calls = 1
        /\ gw[r].exc = "none"
        /\ dsResp[r].status = 500
        /\ resp[r].status = 500

\* C7: a detect request handled while the model is unset is answered 503 at
\* once, without inference or artifact; and once the load has failed the
\* service handles no detect request
C7_NoServiceWithoutModel ==
    /\ [](\A r \in Reqs :
            ds[r].model_seen = "unset"
            => /\ DsReturned(r)
               /\ dsResp[r].status = 503
               /\ hist[r].inferences = 0
               /\ hist[r].artifacts = {})
    /\ [][svc = "dead" => (model = "unset" /\ UNCHANGED <<model, svc, dpc, ds, dsResp>>)]_vars

\* C7 happens: a request was refused with 503 before the load, and the load
\* then failed
C7_Witness ==
    /\ svc = "dead"
    /\ \E r \in Reqs : ds[r].model_seen = "unset" /\ dsResp[r].status = 503

\* C8: after a successful detect request the JSON artifact holds exactly the
\* fields and values of the returned result
C8_JsonArtifactEqualsResponse ==
    \A r \in Reqs :
        (DsReturned(r) /\ dsResp[r].status = 200)
        => LET path == JsonPath(ds[r].result_filename_json)
           IN  /\ Exists(files, path)
               /\ files[path].kind = "json"
               /\ DOMAIN files[path].doc = DOMAIN dsResp[r].body
               /\ \A k \in DOMAIN dsResp[r].body :
                      files[path].doc[k] = dsResp[r].body[k]

\* C9: the center of every detection is the midpoint of the reported
\* (rounded) box, rounded to two decimals; a midpoint that falls on a half
\* may round either way
C9_CenterIsMidpointOfReportedBox ==
    parsed.done =>
        \A i \in 1..Len(parsed.detections) :
            LET d == parsed.detections[i]
            IN  /\ 2 * d.center.x - (d.bounding_box.x_min + d.bounding_box.x_max)
                       \in {-1, 0, 1}
                /\ 2 * d.center.y - (d.bounding_box.y_min + d.bounding_box.y_max)
                       \in {-1, 0, 1}

\* C10: a success response of the gateway carries a count equal to the
\* number of detections, and every value the service sent is passed on
C10_CountMatchesLength ==
    \A r \in Reqs :
        (GwDone(r) /\ resp[r].status = 200)
        => /\ resp[r].body.detections_count = Len(resp[r].body.detections)
           /\ \A k \in DOMAIN dsResp[r].body : resp[r].body[k] = dsResp[r].body[k]

\* C10 happens: a success response with two detections
C10_Witness ==
    \E r \in Reqs :
        /\ GwDone(r) /\ resp[r].status = 200
        /\ Len(resp[r].body.detections) = 2

=============================================================================
